---- MODULE Spec2Model ----
(***************************************************************************)
(* acme-accounting: the ticket assignment engine (TicketsController) and   *)
(* the ledger report generator (ReportsService), as state machines.        *)
(***************************************************************************)
EXTENDS Integers, Sequences, FiniteSets, TLC

VARIABLES
    users,      \* the users table (read-only for the controller)
    tickets,    \* the tickets table, in insertion order; id = position
    last,       \* the last POST /api/v1/tickets call: request, outcome, store before it
    tmpDir,     \* the input directory TMP_DIR: missing, or its files
    outDir,     \* the output directory OUTPUT_DIR: missing, or its files
    tz,         \* the process's time zone, west of UTC or not
    states,     \* ReportsService.states: scope -> state value
    fileCache,  \* ReportsService.fileCache: the Map's entries in insertion order
    timers,     \* the setTimeout(..., 0) callbacks not yet run, oldest first
    running,    \* the scope whose callback is executing, or NoScope
    firstRead,  \* history: the cache as the first getFileData() call left it
    budget,     \* how many more triggers and file-system changes the model takes
    calls,      \* the POST /api/v1/tickets calls in flight: their position and locals
    asked,      \* history: the scopes triggered, in the order of the triggers
    done,       \* history: the runs that have ended, in the order of the ends
    lastRun,    \* history: scope -> how its last run ended, on which cache and input
    filled,     \* history: the input directory as the cache got its first entry
    observed    \* history: what the last state(scope) call returned

ticketVars == <<users, tickets, last>>
reportVars == <<tmpDir, outDir, tz, states, fileCache, timers, running, firstRead, budget>>
traceVars == <<asked, done, lastRun, filled, observed>>
vars == <<users, tickets, last, tmpDir, outDir, tz, states, fileCache, timers, running,
          firstRead, budget, calls, asked, done, lastRun, filled, observed>>

(***************************************************************************)
(* Bounds                                                                  *)
(***************************************************************************)
NumCompanies == 2
MaxPerRole == 2
MaxTickets == 3

(***************************************************************************)
(* Data model                                                              *)
(***************************************************************************)
Companies == 1 .. NumCompanies

TicketType == {"managementReport", "strikeOff", "registrationAddressChange", "other"}

UserRole == {"accountant", "corporateSecretary", "director"}

RoleIndex(role) ==
    CASE role = "accountant" -> 0
      [] role = "corporateSecretary" -> 1
      [] role = "director" -> 2

\* a missing (falsy) field of the request body
NoType == ""
NoCompany == 0

\* a company id no row of the companies table has
UnknownCompany == NumCompanies + 1

\* what a client may send: every well-formed request, and the malformed ones
Requests ==
    (TicketType \X Companies)
        \cup { <<NoType, 1>>, <<"bogus", 1>>, <<"bogus", UnknownCompany>>,
               <<"other", NoCompany>>, <<"strikeOff", UnknownCompany>>,
               <<"registrationAddressChange", UnknownCompany>> }

(***************************************************************************)
(* The users table: per company and role between 0 and MaxPerRole users.   *)
(* Ids follow insertion order; creation timestamps either follow the ids   *)
(* or run against them (rows imported newest first).                       *)
(***************************************************************************)
UserId(c, role, k) == ((c - 1) * 3 + RoleIndex(role)) * MaxPerRole + k

MkUsers(n, newestFirst) ==
    { [id |-> UserId(c, role, k), role |-> role, companyId |-> c,
       createdAt |-> IF newestFirst THEN n[c][role] + 1 - k ELSE k] :
        <<c, role, k>> \in { x \in Companies \X UserRole \X (1 .. MaxPerRole) :
                               x[3] <= n[x[1]][x[2]] } }

\* the staffing the seeder gives every company: one user of each role
SeedStaff == [role \in UserRole |-> 1]

\* every staffing of at most one company, the others staffed as seeded
UserTables ==
    { MkUsers(n, f) :
        n \in { m \in [Companies -> [UserRole -> 0 .. MaxPerRole]] :
                  Cardinality({ c \in Companies : m[c] # SeedStaff }) <= 1 },
        f \in BOOLEAN }

(***************************************************************************)
(* Queries of TicketsController.create                                     *)
(***************************************************************************)
\* Company.findByPk(companyId)
CompanyFindByPk(companyId) == companyId \in Companies

\* variant: the duplicate lookup also filters on status open
ExistingTicketOpenOnly(store, companyId) ==
    \E i \in 1 .. Len(store) :
        /\ store[i].companyId = companyId
        /\ store[i].type = "registrationAddressChange"
        /\ store[i].status = "open"

\* variant: the duplicate lookup without the type condition
ExistingTicketAnyType(store, companyId) ==
    \E i \in 1 .. Len(store) : store[i].companyId = companyId

\* variant: the duplicate lookup names the wrong ticket type
ExistingTicketWrongType(store, companyId) ==
    \E i \in 1 .. Len(store) :
        /\ store[i].companyId = companyId
        /\ store[i].type = "strikeOff"

\* Ticket.findOne({where: {companyId, type: registrationAddressChange}})
ExistingTicket(store, companyId) ==
    \E i \in 1 .. Len(store) :
        /\ store[i].companyId = companyId
        /\ store[i].type = "registrationAddressChange"

\* User.findAll({where: {companyId, role}})
UserFindAll(usrs, companyId, role) ==
    { u \in usrs : u.companyId = companyId /\ u.role = role }

\* variant: the rows in the order they were created, oldest first
FirstByCreatedAtAsc(found) ==
    { u \in found : \A v \in found : u.createdAt <= v.createdAt }

\* the rows that may come first under order createdAt DESC
FirstByCreatedAtDesc(found) ==
    { u \in found : \A v \in found : v.createdAt <= u.createdAt }

\* variant: the bulk update without the companyId condition
BulkResolveEveryCompany(store, companyId) ==
    [ i \in 1 .. Len(store) |->
        IF store[i].status = "open" /\ store[i].type # "strikeOff"
        THEN [store[i] EXCEPT !.status = "resolved"]
        ELSE store[i] ]

\* Ticket.update({status: resolved}, {where: {companyId, status: open, type != strikeOff}})
BulkResolve(store, companyId) ==
    [ i \in 1 .. Len(store) |->
        IF /\ store[i].companyId = companyId
           /\ store[i].status = "open"
           /\ store[i].type # "strikeOff"
        THEN [store[i] EXCEPT !.status = "resolved"]
        ELSE store[i] ]

\* Ticket.create({companyId, assigneeId, category, type, status: open})
TicketCreate(store, companyId, assigneeId, category, type) ==
    Append(store, [id |-> Len(store) + 1, type |-> type, category |-> category,
                   status |-> "open", companyId |-> companyId,
                   assigneeId |-> assigneeId])

(***************************************************************************)
(* The steps of TicketsController.create, in the order of the code         *)
(***************************************************************************)
Failure(kind, message, store) ==
    [kind |-> kind, message |-> message, store |-> store, dto |-> <<>>]

\* input validation
Validate(type, companyId) ==
    IF type = NoType \/ companyId = NoCompany
    THEN "Type and companyId are required"
    ELSE IF type \notin TicketType THEN "Invalid ticket type" ELSE "ok"

Resolved(category, userRole, resolve) ==
    [error |-> "", category |-> category, userRole |-> userRole, resolve |-> resolve]

Rejected(category, message) ==
    [error |-> message, category |-> category, userRole |-> "", resolve |-> FALSE]

\* variant: management reports routed like corporate tickets
ManagementReportRoleAsCorporate == Resolved("corporate", "corporateSecretary", FALSE)

\* type = managementReport
ManagementReportRole == Resolved("accounting", "accountant", FALSE)

\* variant: any positive number of directors lets a strikeOff through
StrikeOffRoleAnyDirector(usrs, companyId) ==
    LET directors == UserFindAll(usrs, companyId, "director") IN
    IF Cardinality(directors) >= 1
    THEN Resolved("management", "director", TRUE)
    ELSE Rejected("management", "No director found. Cannot create a strikeOff ticket")

\* type = strikeOff: exactly one director, then the bulk update
StrikeOffRole(usrs, companyId) ==
    LET directors == UserFindAll(usrs, companyId, "director") IN
    IF Cardinality(directors) = 1
    THEN Resolved("management", "director", TRUE)
    ELSE IF Cardinality(directors) > 1
    THEN Rejected("management",
                  "Multiple directors found. Cannot create a strikeOff ticket")
    ELSE Rejected("management", "No director found. Cannot create a strikeOff ticket")

\* no secretary found: try director
DirectorFallback(usrs, companyId) ==
    LET directors == UserFindAll(usrs, companyId, "director") IN
    IF Cardinality(directors) = 1
    THEN Resolved("corporate", "director", FALSE)
    ELSE IF Cardinality(directors) > 1
    THEN Rejected("corporate", "Multiple directors found. Cannot create a ticket")
    ELSE Rejected("corporate", "No suitable assignee found for this ticket type")

\* variant: several secretaries fall back to the director like none
CorporateRoleFallbackOnMany(usrs, companyId) ==
    LET secretaries == UserFindAll(usrs, companyId, "corporateSecretary") IN
    IF Cardinality(secretaries) = 1
    THEN Resolved("corporate", "corporateSecretary", FALSE)
    ELSE DirectorFallback(usrs, companyId)

\* every other type: corporate secretary first, then fall back to director
CorporateRole(usrs, companyId) ==
    LET secretaries == UserFindAll(usrs, companyId, "corporateSecretary") IN
    IF Cardinality(secretaries) = 1
    THEN Resolved("corporate", "corporateSecretary", FALSE)
    ELSE IF Cardinality(secretaries) > 1
    THEN Rejected("corporate",
                  "Multiple corporate secretaries found. Cannot create a ticket")
    ELSE DirectorFallback(usrs, companyId)

\* category and role: the if / else-if / else on the ticket type
ResolveRole(usrs, type, companyId) ==
    IF type = "managementReport" THEN ManagementReportRole
    ELSE IF type = "strikeOff" THEN StrikeOffRole(usrs, companyId)
    ELSE CorporateRole(usrs, companyId)

\* assignee lookup and persistence, on the store the role resolution left
Persist(usrs, store, type, companyId, category, userRole) ==
    LET assignees == UserFindAll(usrs, companyId, userRole) IN
    IF assignees = {}
    THEN { Failure("ConflictError", "Cannot find user with role", store) }
    ELSE { [kind |-> "ok", message |-> "",
            store |-> TicketCreate(store, companyId, a.id, category, type),
            dto |-> << [id |-> Len(store) + 1, type |-> type, assigneeId |-> a.id,
                        status |-> "open", category |-> category,
                        companyId |-> companyId] >>] :
            a \in FirstByCreatedAtDesc(assignees) }

\* variant: the bulk update issued before the director count is checked
CreateOutcomesResolveFirst(usrs, store, type, companyId) ==
    IF Validate(type, companyId) # "ok"
    THEN { Failure("ValidationError", Validate(type, companyId), store) }
    ELSE IF ~CompanyFindByPk(companyId)
    THEN { Failure("NotFoundError", "Company not found", store) }
    ELSE IF type = "registrationAddressChange" /\ ExistingTicket(store, companyId)
    THEN { Failure("ConflictError",
                   "A registrationAddressChange ticket already exists for this company",
                   store) }
    ELSE LET r == ResolveRole(usrs, type, companyId)
             s == IF type = "strikeOff" THEN BulkResolve(store, companyId) ELSE store
         IN  IF r.error # ""
             THEN { Failure("ConflictError", r.error, s) }
             ELSE Persist(usrs, s, type, companyId, r.category, r.userRole)

\* the whole handler: the set of outcomes of create({type, companyId}) on `store`
CreateOutcomes(usrs, store, type, companyId) ==
    IF Validate(type, companyId) # "ok"
    THEN { Failure("ValidationError", Validate(type, companyId), store) }
    ELSE IF ~CompanyFindByPk(companyId)
    THEN { Failure("NotFoundError", "Company not found", store) }
    ELSE IF type = "registrationAddressChange" /\ ExistingTicket(store, companyId)
    THEN { Failure("ConflictError",
                   "A registrationAddressChange ticket already exists for this company",
                   store) }
    ELSE LET r == ResolveRole(usrs, type, companyId) IN
         IF r.error # ""
         THEN { Failure("ConflictError", r.error, store) }
         ELSE Persist(usrs,
                      IF r.resolve THEN BulkResolve(store, companyId) ELSE store,
                      type, companyId, r.category, r.userRole)

(***************************************************************************)
(* The ledger report generator: data                                       *)
(***************************************************************************)
Scopes == {"accounts", "yearly", "fs"}
NoScope == "none"

\* FINANCIAL_CATEGORIES
Revenues == <<"Sales Revenue">>
Expenses == <<"Cost of Goods Sold", "Salaries Expense", "Rent Expense",
              "Utilities Expense", "Interest Expense", "Tax Expense">>
Assets == <<"Cash", "Accounts Receivable", "Inventory", "Fixed Assets",
            "Prepaid Expenses">>
Liabilities == <<"Accounts Payable", "Loan Payable", "Sales Tax Payable",
                 "Accrued Liabilities", "Unearned Revenue", "Dividends Payable">>
Equity == <<"Common Stock", "Retained Earnings">>

Range(seq) == { seq[i] : i \in 1 .. Len(seq) }

\* A line is the sequence of its comma-separated fields, line.split(',').
\* A field the line does not have destructures to undefined.
Undefined == "<undefined>"
Field(line, i) == IF i <= Len(line) THEN line[i] ELSE Undefined

\* content.trim().split('\n'): an empty file still yields one, empty, line
SplitLines(content) == IF content = <<>> THEN << <<"">> >> ELSE content

\* A JavaScript value of the aggregation: a number (in hundredths), NaN, or
\* the string that += makes of a value that is no number.
Number(v) == [kind |-> "number", v |-> v]
NaN == [kind |-> "NaN", v |-> 0]
StringValue == [kind |-> "string", v |-> 0]

Plus(a, b) ==
    IF a.kind = "string" \/ b.kind = "string" THEN StringValue
    ELSE IF a.kind = "NaN" \/ b.kind = "NaN" THEN NaN
    ELSE Number(a.v + b.v)

Minus(a, b) ==
    IF a.kind = "NaN" \/ b.kind = "NaN" THEN NaN ELSE Number(a.v - b.v)

\* parseFloat on the field texts of the ledgers below: a leading number is
\* read and what follows it ignored; no leading number gives NaN
ParseFloat(str) ==
    CASE str = "0" -> Number(0)
      [] str = "100" -> Number(10000)
      [] str = "40" -> Number(4000)
      [] str = "30" -> Number(3000)
      [] str = "12.5" -> Number(1250)
      [] str = "7 USD" -> Number(700)
      [] OTHER -> NaN

\* parseFloat(debit || '0') - parseFloat(credit || '0')
OrZero(field) == IF field = Undefined \/ field = "" THEN "0" ELSE field

Amount(line) ==
    Minus(ParseFloat(OrZero(Field(line, 4))), ParseFloat(OrZero(Field(line, 5))))

\* value.toFixed(2): sign, whole part and two decimals, or the text NaN
ToFixed2(n) ==
    IF n.kind = "NaN" THEN [text |-> "NaN", neg |-> FALSE, whole |-> 0, frac |-> 0]
    ELSE LET a == IF n.v < 0 THEN 0 - n.v ELSE n.v IN
         [text |-> "", neg |-> n.v < 0, whole |-> a \div 100, frac |-> a % 100]

\* an output line: its text, and the amounts formatted into it
TextLine(text) == [text |-> text, amounts |-> <<>>]
AmountLine(text, n) == [text |-> text, amounts |-> <<ToFixed2(n)>>]

(***************************************************************************)
(* Loops.  An expression bound by a quantifier is evaluated once, so every *)
(* loop binds its running value: Only({ e(x) : x \in {v} }) is e(v).       *)
(***************************************************************************)
Only(S) == CHOOSE x \in S : TRUE

\* for (const x of seq) acc = Op(acc, x)
RECURSIVE FoldLeft(_, _, _)
FoldLeft(Op(_, _), acc, seq) ==
    IF seq = <<>> THEN acc
    ELSE Only({ FoldLeft(Op, next, rest) : next \in {Op(acc, seq[1])},
                                           rest \in {Tail(seq)} })

\* the elements of S in ascending order of their (distinct) ranks
Ascending(S, Rank(_)) ==
    [ i \in 1 .. Cardinality(S) |->
        CHOOSE x \in S : Cardinality({ y \in S : Rank(y) < Rank(x) }) = i - 1 ]

(***************************************************************************)
(* A Record<string, number> object: its own properties in insertion order. *)
(***************************************************************************)
\* property names every object inherits from Object.prototype
InheritedKeys == {"constructor", "toString", "valueOf", "hasOwnProperty"}

\* property names that are array indices, which an object enumerates first,
\* in ascending numeric order
IndexKeys == {"1000", "2022", "2023", "2024"}
IndexOf(key) ==
    CASE key = "1000" -> 1000
      [] key = "2022" -> 2022
      [] key = "2023" -> 2023
      [] key = "2024" -> 2024

\* the property key a value is converted to
ToKey(x) == IF x = Undefined THEN "undefined" ELSE x

HasOwn(obj, key) == \E i \in 1 .. Len(obj) : obj[i].key = key

\* the own property key of obj, which has it
Own(obj, key) == obj[CHOOSE i \in 1 .. Len(obj) : obj[i].key = key].value

\* !obj[key]: no own or inherited property, or an own one that is 0 or NaN
IsFalsy(obj, key) ==
    IF HasOwn(obj, key)
    THEN \E n \in {Own(obj, key)} : n.kind = "NaN" \/ (n.kind = "number" /\ n.v = 0)
    ELSE key \notin InheritedKeys /\ key # "__proto__"

\* obj[key] = value
Put(obj, key, value) ==
    IF key = "__proto__" THEN obj
    ELSE IF HasOwn(obj, key)
    THEN [ i \in 1 .. Len(obj) |->
             IF obj[i].key = key THEN [key |-> key, value |-> value] ELSE obj[i] ]
    ELSE Append(obj, [key |-> key, value |-> value])

\* obj[key] += delta: a number is added to; the inherited function is not
\* one, and becomes a string
AddTo(obj, key, delta) ==
    IF HasOwn(obj, key)
    THEN Put(obj, key, Plus(Own(obj, key), delta))
    ELSE Put(obj, key, StringValue)

\* if (!obj[key]) obj[key] = 0; obj[key] += delta
Post(obj, key, delta) ==
    IF IsFalsy(obj, key)
    THEN Only({ AddTo(zeroed, key, delta) : zeroed \in {Put(obj, key, Number(0))} })
    ELSE AddTo(obj, key, delta)

\* Object.entries(obj): index keys ascending, then the others as inserted
Entries(obj) ==
    [ i \in 1 .. Cardinality({ k \in IndexKeys : HasOwn(obj, k) }) |->
        \* the i-th own index key
        [key |-> Ascending({ k \in IndexKeys : HasOwn(obj, k) }, IndexOf)[i],
         value |-> Own(obj, Ascending({ k \in IndexKeys : HasOwn(obj, k) }, IndexOf)[i])] ]
        \o SelectSeq(obj, LAMBDA e : e.key \notin IndexKeys)

(***************************************************************************)
(* The three reports, as functions of getFileData()'s result               *)
(***************************************************************************)
\* for (const fileLines of allFileData) for (const line of fileLines)
Flatten(allFileData) == FoldLeft(LAMBDA lines, fileLines : lines \o fileLines,
                                 <<>>, allFileData)

Done(output) == [error |-> "", output |-> output]
Thrown(message) == [error |-> message, output |-> <<>>]

\* accounts(): the balance of every account
AccountBalances(allFileData) ==
    FoldLeft(LAMBDA accountBalances, line :
                 Post(accountBalances, ToKey(Field(line, 2)), Amount(line)),
             <<>>, Flatten(allFileData))

\* one row per account; toFixed is no method of a string
AccountsOutput(entries) ==
    IF \E i \in 1 .. Len(entries) : entries[i].value.kind = "string"
    THEN Thrown("balance.toFixed is not a function")
    ELSE Done(<<TextLine("Account,Balance")>>
                \o [ i \in 1 .. Len(entries) |->
                       AmountLine(entries[i].key, entries[i].value) ])

AccountsReport(allFileData) ==
    Only({ AccountsOutput(entries) :
             entries \in { Entries(accountBalances) :
                             accountBalances \in {AccountBalances(allFileData)} } })

\* where the process runs: at UTC (or east of it), or west of it
Zones == {"utc", "west"}

\* new Date(date).getFullYear().toString(): a date-only ISO text is midnight
\* UTC, which west of UTC is still the day before; no date gives NaN
YearOf(date, zone) ==
    CASE date = "2023-01-01" -> IF zone = "west" THEN "2022" ELSE "2023"
      [] date = "2023-06-30" -> "2023"
      [] date = "2024-05-01" -> "2024"
      [] OTHER -> "NaN"

\* the order of Array.prototype.sort() on the year texts: by code unit
CodeUnitRank(str) ==
    CASE str = "2022" -> 1
      [] str = "2023" -> 2
      [] str = "2024" -> 3
      [] str = "NaN" -> 4

\* yearly(): the Cash balance per calendar year
CashByYear(allFileData, zone) ==
    FoldLeft(LAMBDA cashByYear, line :
                 IF Field(line, 2) = "Cash"
                 THEN Post(cashByYear, YearOf(Field(line, 1), zone), Amount(line))
                 ELSE cashByYear,
             <<>>, Flatten(allFileData))

\* Object.keys(cashByYear).sort(), then one row per year
YearlyOutput(cashByYear) ==
    Only({ Done(<<TextLine("Financial Year,Cash Balance")>>
                  \o [ i \in 1 .. Len(sortedYears) |->
                         AmountLine(sortedYears[i], Own(cashByYear, sortedYears[i])) ]) :
             sortedYears \in { Ascending({ cashByYear[i].key : i \in 1 .. Len(cashByYear) },
                                         CodeUnitRank) } })

YearlyReport(allFileData, zone) ==
    Only({ YearlyOutput(cashByYear) : cashByYear \in {CashByYear(allFileData, zone)} })

\* fs(): every account of the taxonomy starts at 0; the lines of no other
\* account are added
FsBalances(allFileData) ==
    FoldLeft(LAMBDA balances, line :
                 IF HasOwn(balances, Field(line, 2))
                 THEN AddTo(balances, Field(line, 2), Amount(line))
                 ELSE balances,
             [ i \in 1 .. Len(Revenues \o Expenses \o Assets \o Liabilities \o Equity) |->
                 [key |-> (Revenues \o Expenses \o Assets \o Liabilities \o Equity)[i],
                  value |-> Number(0)] ],
             Flatten(allFileData))

\* balances[account] || 0
ValueOrZero(balances, account) ==
    IF Own(balances, account).kind = "NaN" THEN Number(0) ELSE Own(balances, account)

\* the rows of one group, and the group's total
GroupRows(balances, group) ==
    [ i \in 1 .. Len(group) |-> AmountLine(group[i], ValueOrZero(balances, group[i])) ]

\* variant: the totals add the balances as they are, NaN included
GroupTotalOfBalances(balances, group) ==
    FoldLeft(LAMBDA total, account : Plus(total, Own(balances, account)),
             Number(0), group)

GroupTotal(balances, group) ==
    FoldLeft(LAMBDA total, account : Plus(total, ValueOrZero(balances, account)),
             Number(0), group)

NetIncome(balances) ==
    Only({ Minus(totalRevenue, totalExpenses) :
             totalRevenue \in {GroupTotal(balances, Revenues)},
             totalExpenses \in {GroupTotal(balances, Expenses)} })

FsTotals(balances) ==
    [netIncome |-> NetIncome(balances),
     totalAssets |-> GroupTotal(balances, Assets),
     totalLiabilities |-> GroupTotal(balances, Liabilities),
     totalEquity |-> Plus(GroupTotal(balances, Equity), NetIncome(balances))]

FsOutput(balances, t) ==
    Done(<<TextLine("Basic Financial Statement"), TextLine(""),
           TextLine("Income Statement")>>
         \o GroupRows(balances, Revenues)
         \o GroupRows(balances, Expenses)
         \o <<AmountLine("Net Income", t.netIncome), TextLine(""),
              TextLine("Balance Sheet"), TextLine("Assets")>>
         \o GroupRows(balances, Assets)
         \o <<AmountLine("Total Assets", t.totalAssets), TextLine(""),
              TextLine("Liabilities")>>
         \o GroupRows(balances, Liabilities)
         \o <<AmountLine("Total Liabilities", t.totalLiabilities), TextLine(""),
              TextLine("Equity")>>
         \o GroupRows(balances, Equity)
         \o <<AmountLine("Retained Earnings (Net Income)", t.netIncome),
              AmountLine("Total Equity", t.totalEquity), TextLine(""),
              [text |-> "Assets = Liabilities + Equity",
               amounts |-> <<ToFixed2(t.totalAssets),
                             ToFixed2(Plus(t.totalLiabilities, t.totalEquity))>>]>>)

FsReport(allFileData) ==
    Only({ FsOutput(balances, t) :
             <<balances, t>> \in { <<b, FsTotals(b)>> : b \in {FsBalances(allFileData)} } })

\* the report of a scope
Report(scope, allFileData, zone) ==
    CASE scope = "accounts" -> AccountsReport(allFileData)
      [] scope = "yearly" -> YearlyReport(allFileData, zone)
      [] scope = "fs" -> FsReport(allFileData)

(***************************************************************************)
(* The file system the reports read and write                              *)
(***************************************************************************)
CsvNames == {"a.csv", "b.csv"}

\* file.endsWith('.csv')
EndsWithCsv(file) == file \in CsvNames

Line(date, account, debit, credit) == <<date, account, "memo", debit, credit>>

Ledger2023 == << Line("2023-01-01", "Cash", "100", "0"),
                 Line("2023-01-01", "Sales Revenue", "0", "100") >>
Ledger2024 == << Line("2024-05-01", "Cash", "0", "30"),
                 Line("2024-05-01", "Rent Expense", "30", "0") >>

\* what a file of the input directory may hold
Contents == {Ledger2023, Ledger2024}

TextFile(name, content) == [name |-> name, readable |-> TRUE, content |-> content]
\* a file readFileSync() fails on
LockedFile(name) == [name |-> name, readable |-> FALSE, content |-> <<>>]

\* a directory: its files in the order fs.readdirSync() lists them
MissingDir == [exists |-> FALSE, files |-> <<>>]
Dir(files) == [exists |-> TRUE, files |-> files]

\* the orders a directory may list a set of files in
Orders(files) ==
    { l \in [1 .. Cardinality(files) -> files] :
        \A i, j \in DOMAIN l : i # j => l[i] # l[j] }

(***************************************************************************)
(* ReportsService                                                          *)
(***************************************************************************)
Idle == [kind |-> "idle", seconds |-> 0, message |-> ""]
Processing == [kind |-> "processing", seconds |-> 0, message |-> ""]
Finished(seconds) == [kind |-> "finished", seconds |-> seconds, message |-> ""]
ErrorState(message) == [kind |-> "error", seconds |-> 0, message |-> message]

\* one pass of the loop of getFileData(); a failed read ends the loop and
\* leaves the entries set before it
ReadFile(read, file) ==
    IF read.error # "" \/ ~EndsWithCsv(file.name) THEN read
    ELSE IF ~file.readable
    THEN [read EXCEPT !.error = "EACCES: permission denied, open"]
    ELSE [read EXCEPT !.cache = Append(@, [file |-> file.name,
                                           lines |-> SplitLines(file.content)])]

\* getFileData(): fills the cache when it is empty; the cache afterwards and
\* the error thrown, if any
GetFileData(cache, dir) ==
    IF Len(cache) = 0
    THEN IF ~dir.exists
         THEN [error |-> "ENOENT: no such file or directory, scandir", cache |-> cache]
         ELSE FoldLeft(ReadFile, [error |-> "", cache |-> cache], dir.files)
    ELSE [error |-> "", cache |-> cache]

\* Array.from(this.fileCache.values())
CacheValues(cache) == [ i \in 1 .. Len(cache) |-> cache[i].lines ]

\* variant: the output is appended to the file
WriteFileAppend(out, scope, output) ==
    IF ~out.exists
    THEN [error |-> "ENOENT: no such file or directory, open", out |-> out]
    ELSE [error |-> "",
          out |-> [out EXCEPT !.files = [out.files EXCEPT ![scope] = Append(@, output)]]]

\* fs.writeFileSync(path.join(OUTPUT_DIR, scope + '.csv'), output.join('\n'))
WriteFileSync(out, scope, output) ==
    IF ~out.exists
    THEN [error |-> "ENOENT: no such file or directory, open", out |-> out]
    ELSE [error |-> "",
          out |-> [out EXCEPT !.files = [out.files EXCEPT ![scope] = <<output>>]]]

\* variant: an exception escapes the callback, the catch never runs
SettleUncaught(error, seconds) ==
    IF error = "" THEN Finished(seconds) ELSE Processing

\* the state the try block or its catch leaves
Settle(error, seconds) ==
    IF error = "" THEN Finished(seconds) ELSE ErrorState(error)

\* the end of the try block: the output is written, the state settled
Write(scope, cache, report, out, seconds) ==
    IF report.error # ""
    THEN [cache |-> cache, out |-> out, state |-> Settle(report.error, seconds)]
    ELSE Only({ [cache |-> cache, out |-> written.out,
                 state |-> Settle(written.error, seconds)] :
                  written \in {WriteFileSync(out, scope, report.output)} })

\* the middle of the try block: the lines read are aggregated
Aggregate(scope, read, out, zone, seconds) ==
    IF read.error # ""
    THEN [cache |-> read.cache, out |-> out, state |-> Settle(read.error, seconds)]
    ELSE Only({ Write(scope, read.cache, report, out, seconds) :
                  report \in {Report(scope, CacheValues(read.cache), zone)} })

\* the callback's body after the 'processing' write: read, aggregate, write,
\* settle the state
RunBody(scope, cache, dir, out, zone, seconds) ==
    Only({ Aggregate(scope, read, out, zone, seconds) :
             read \in {GetFileData(cache, dir)} })

(***************************************************************************)
(* The ticket engine, one request at a time                                *)
(***************************************************************************)
NoCall == [type |-> NoType, companyId |-> NoCompany, kind |-> "none",
           message |-> "", dto |-> <<>>, before |-> <<>>]

NoOutputs == [scope \in Scopes |-> <<>>]

\* no run has ended, nothing was read, state() was not called
NoRun == [kind |-> "none", cache |-> <<>>, dir |-> MissingDir]
NotFilled == [done |-> FALSE, dir |-> MissingDir]
NoTrace ==
    /\ asked = <<>>
    /\ done = <<>>
    /\ lastRun = [scope \in Scopes |-> NoRun]
    /\ filled = NotFilled
    /\ observed = "none"

\* no request is in flight
NoCalls == <<>>

\* the reports service as constructed, nothing triggered
ReportsIdle ==
    /\ tmpDir = MissingDir
    /\ outDir = [exists |-> FALSE, files |-> NoOutputs]
    /\ tz = "utc"
    /\ states = [scope \in Scopes |-> Idle]
    /\ fileCache = <<>>
    /\ timers = <<>>
    /\ running = NoScope
    /\ firstRead = [done |-> FALSE, cache |-> <<>>]
    /\ budget = [triggers |-> 0, changes |-> 0]

Init ==
    /\ users \in UserTables
    /\ tickets = <<>>
    /\ last = NoCall
    /\ calls = NoCalls
    /\ ReportsIdle
    /\ NoTrace

\* POST /api/v1/tickets
create(type, companyId) ==
    \E o \in CreateOutcomes(users, tickets, type, companyId) :
        /\ Len(o.store) <= MaxTickets
        /\ tickets' = o.store
        /\ last' = [type |-> type, companyId |-> companyId, kind |-> o.kind,
                    message |-> o.message, dto |-> o.dto, before |-> tickets]
        /\ UNCHANGED users
        /\ UNCHANGED reportVars

\* the steps of this specification record no history
Untraced == UNCHANGED <<calls, traceVars>>

Next == \E req \in Requests : create(req[1], req[2]) /\ Untraced

Spec == Init /\ [][Next]_vars

(***************************************************************************)
(* The ticket engine, requests in flight together: a call gives way to the *)
(* others at each await, that is around every query it sends.  The role    *)
(* queries read the users table, which no call writes, and are one step.   *)
(***************************************************************************)
NumCalls == 3

CallIds == 1 .. NumCalls

\* the requests sent together: every type for one company, and one for a
\* company that does not exist
RacingRequests == (TicketType \X {1}) \cup {<<"other", UnknownCompany>>}

\* the users tables raced on: as seeded, and company 1 without a secretary
RacingUsers ==
    { MkUsers([c \in Companies |-> SeedStaff], FALSE),
      MkUsers([c \in Companies |->
                 IF c = 1 THEN [SeedStaff EXCEPT !["corporateSecretary"] = 0]
                 ELSE SeedStaff], FALSE) }

\* a call as it arrives, and as it ends
Arrived(type, companyId) ==
    [type |-> type, companyId |-> companyId, pc |-> "findByPk", kind |-> "none",
     message |-> "", category |-> "", userRole |-> "", assigneeId |-> 0,
     seen |-> <<>>, resolvedUpTo |-> 0]

Thrown4xx(call, kind, message) ==
    [call EXCEPT !.pc = "done", !.kind = kind, !.message = message]

RaceInit ==
    /\ users \in RacingUsers
    /\ tickets = <<>>
    /\ last = NoCall
    /\ calls \in [CallIds -> { Arrived(r[1], r[2]) : r \in RacingRequests }]
    /\ ReportsIdle
    /\ NoTrace

\* a step of call p: its record and the tickets table after it
Step(p, call, store) ==
    /\ calls' = [calls EXCEPT ![p] = call]
    /\ tickets' = store
    /\ UNCHANGED <<users, last, traceVars>>
    /\ UNCHANGED reportVars

\* validation, then await Company.findByPk(companyId)
CallFindByPk(p) ==
    /\ calls[p].pc = "findByPk"
    /\ Step(p,
            IF Validate(calls[p].type, calls[p].companyId) # "ok"
            THEN Thrown4xx(calls[p], "ValidationError",
                           Validate(calls[p].type, calls[p].companyId))
            ELSE IF ~CompanyFindByPk(calls[p].companyId)
            THEN Thrown4xx(calls[p], "NotFoundError", "Company not found")
            ELSE [calls[p] EXCEPT !.pc = IF calls[p].type = "registrationAddressChange"
                                         THEN "findOne" ELSE "resolveRole"],
            tickets)

\* await Ticket.findOne(...): the duplicate check, on the table as it is now
CallFindOne(p) ==
    /\ calls[p].pc = "findOne"
    /\ Step(p,
            IF ExistingTicket(tickets, calls[p].companyId)
            THEN Thrown4xx([calls[p] EXCEPT !.seen = tickets], "ConflictError",
                           "A registrationAddressChange ticket already exists for this company")
            ELSE [calls[p] EXCEPT !.pc = "resolveRole", !.seen = tickets],
            tickets)

\* category and role, by await User.findAll(...) where the type needs it
CallResolveRole(p) ==
    /\ calls[p].pc = "resolveRole"
    /\ \E r \in {ResolveRole(users, calls[p].type, calls[p].companyId)} :
          Step(p,
               IF r.error # ""
               THEN Thrown4xx(calls[p], "ConflictError", r.error)
               ELSE [calls[p] EXCEPT !.pc = IF r.resolve THEN "update" ELSE "findAll",
                                     !.category = r.category,
                                     !.userRole = r.userRole],
               tickets)

\* await Ticket.update(...): the bulk resolve of a strikeOff
CallUpdate(p) ==
    /\ calls[p].pc = "update"
    /\ Step(p,
            [calls[p] EXCEPT !.pc = "findAll", !.resolvedUpTo = Len(tickets)],
            BulkResolve(tickets, calls[p].companyId))

\* await User.findAll(... order createdAt DESC): the assignee
CallFindAll(p) ==
    /\ calls[p].pc = "findAll"
    /\ \E assignees \in {UserFindAll(users, calls[p].companyId, calls[p].userRole)} :
          IF assignees = {}
          THEN Step(p, Thrown4xx(calls[p], "ConflictError", "Cannot find user with role"),
                    tickets)
          ELSE \E a \in FirstByCreatedAtDesc(assignees) :
                  Step(p, [calls[p] EXCEPT !.pc = "create", !.assigneeId = a.id], tickets)

\* await Ticket.create(...), and the response
CallCreate(p) ==
    /\ calls[p].pc = "create"
    /\ Len(tickets) < MaxTickets
    /\ Step(p,
            [calls[p] EXCEPT !.pc = "done", !.kind = "ok"],
            TicketCreate(tickets, calls[p].companyId, calls[p].assigneeId,
                         calls[p].category, calls[p].type))

RaceNext ==
    \E p \in CallIds :
        \/ CallFindByPk(p)
        \/ CallFindOne(p)
        \/ CallResolveRole(p)
        \/ CallUpdate(p)
        \/ CallFindAll(p)
        \/ CallCreate(p)

RaceSpec == RaceInit /\ [][RaceNext]_vars

(***************************************************************************)
(* The report generator: triggers, deferred runs, and the file system      *)
(* changing under it                                                       *)
(***************************************************************************)
MaxTriggers == 2
MaxChanges == 1
MaxSeconds == 1

\* the input directory at the start: missing, empty, or some files in some order
InitialDirs ==
    {MissingDir}
        \cup { Dir(l) : l \in Orders({}) }
        \cup { Dir(l) : l \in Orders({TextFile("notes.txt", Ledger2024)}) }
        \cup { Dir(l) : l \in Orders({TextFile("a.csv", Ledger2023),
                                      TextFile("b.csv", Ledger2024)}) }
        \cup { Dir(l) : l \in Orders({TextFile("a.csv", Ledger2023), LockedFile("b.csv"),
                                      TextFile("notes.txt", Ledger2024)}) }

ReportInit ==
    /\ users = MkUsers([c \in Companies |-> SeedStaff], FALSE)
    /\ tickets = <<>>
    /\ last = NoCall
    /\ calls = NoCalls
    /\ NoTrace
    /\ tmpDir \in InitialDirs
    /\ outDir \in { [exists |-> e, files |-> NoOutputs] : e \in BOOLEAN }
    /\ tz \in Zones
    /\ states = [scope \in Scopes |-> Idle]
    /\ fileCache = <<>>
    /\ timers = <<>>
    /\ running = NoScope
    /\ firstRead = [done |-> FALSE, cache |-> <<>>]
    /\ budget = [triggers |-> MaxTriggers, changes |-> MaxChanges]

\* variant: a trigger is dropped while a run of the scope is due
ScheduleUnlessDue(scope) ==
    /\ running = NoScope
    /\ budget.triggers > 0
    /\ timers' = IF scope \in Range(timers) THEN timers ELSE Append(timers, scope)
    /\ budget' = [budget EXCEPT !.triggers = @ - 1]
    /\ UNCHANGED <<tmpDir, outDir, tz, states, fileCache, running, firstRead>>
    /\ UNCHANGED ticketVars

\* accounts(), yearly(), fs(): setTimeout(callback, 0) and return
Schedule(scope) ==
    /\ running = NoScope
    /\ budget.triggers > 0
    /\ timers' = Append(timers, scope)
    /\ budget' = [budget EXCEPT !.triggers = @ - 1]
    /\ UNCHANGED <<tmpDir, outDir, tz, states, fileCache, running, firstRead>>
    /\ UNCHANGED ticketVars

accounts == Schedule("accounts")
yearly == Schedule("yearly")
fs == Schedule("fs")

\* the oldest timer fires: the callback enters its try block
RunBegin(scope) ==
    /\ running = NoScope
    /\ timers # <<>>
    /\ Head(timers) = scope
    /\ timers' = Tail(timers)
    /\ running' = scope
    /\ states' = [states EXCEPT ![scope] = Processing]
    /\ UNCHANGED <<tmpDir, outDir, tz, fileCache, firstRead, budget>>
    /\ UNCHANGED ticketVars

\* the callback runs to its end
RunEnd(scope) ==
    /\ running = scope
    /\ \E seconds \in 0 .. MaxSeconds :
        \E r \in {RunBody(scope, fileCache, tmpDir, outDir, tz, seconds)} :
          /\ fileCache' = r.cache
          /\ outDir' = r.out
          /\ states' = [states EXCEPT ![scope] = r.state]
          /\ firstRead' = IF firstRead.done THEN firstRead
                          ELSE [done |-> TRUE, cache |-> r.cache]
    /\ running' = NoScope
    /\ UNCHANGED <<tmpDir, tz, timers, budget>>
    /\ UNCHANGED ticketVars

\* another process changes the input directory
Changed(dir) ==
    /\ budget.changes > 0
    /\ tmpDir' = dir
    /\ budget' = [budget EXCEPT !.changes = @ - 1]
    /\ UNCHANGED <<outDir, tz, states, fileCache, timers, running, firstRead>>
    /\ UNCHANGED ticketVars

Position(files, name) ==
    { i \in 1 .. Len(files) : files[i].name = name }

\* a file is written: over the file of that name, or as a new entry somewhere
WriteInput ==
    \E name \in CsvNames, content \in Contents :
        /\ tmpDir.exists
        /\ IF Position(tmpDir.files, name) # {}
           THEN \E i \in Position(tmpDir.files, name) :
                  /\ tmpDir.files[i] # TextFile(name, content)
                  /\ Changed(Dir([tmpDir.files EXCEPT ![i] = TextFile(name, content)]))
           ELSE \E i \in 0 .. Len(tmpDir.files) :
                  Changed(Dir(SubSeq(tmpDir.files, 1, i)
                                \o <<TextFile(name, content)>>
                                \o SubSeq(tmpDir.files, i + 1, Len(tmpDir.files))))

RemoveInput ==
    \E i \in 1 .. Len(tmpDir.files) :
        /\ EndsWithCsv(tmpDir.files[i].name)
        /\ Changed(Dir(SubSeq(tmpDir.files, 1, i - 1)
                         \o SubSeq(tmpDir.files, i + 1, Len(tmpDir.files))))

MakeInputDir ==
    /\ ~tmpDir.exists
    /\ Changed(Dir(<<>>))

\* another process creates the output directory
MakeOutputDir ==
    /\ ~outDir.exists
    /\ budget.changes > 0
    /\ outDir' = [outDir EXCEPT !.exists = TRUE]
    /\ budget' = [budget EXCEPT !.changes = @ - 1]
    /\ UNCHANGED <<tmpDir, tz, states, fileCache, timers, running, firstRead>>
    /\ UNCHANGED ticketVars

ReportNext ==
    \/ accounts /\ Untraced
    \/ yearly /\ Untraced
    \/ fs /\ Untraced
    \/ \E scope \in Scopes : RunBegin(scope) /\ Untraced
    \/ \E scope \in Scopes : RunEnd(scope) /\ Untraced
    \/ WriteInput /\ Untraced
    \/ RemoveInput /\ Untraced
    \/ MakeInputDir /\ Untraced
    \/ MakeOutputDir /\ Untraced

ReportSpec == ReportInit /\ [][ReportNext]_vars

\* a step of the event loop: the oldest due timer fires, or the callback
\* that is executing runs to its end
EventLoop == \E scope \in Scopes : (RunBegin(scope) \/ RunEnd(scope)) /\ Untraced

\* the event loop does not stop while it has a step to take
FairReportSpec == ReportSpec /\ WF_vars(EventLoop)

(***************************************************************************)
(* The report generator with its history recorded and its states queried   *)
(***************************************************************************)
\* a trigger, remembered
Triggered(scope) ==
    /\ Schedule(scope)
    /\ asked' = Append(asked, scope)
    /\ UNCHANGED <<calls, done, lastRun, filled, observed>>

Started(scope) == RunBegin(scope) /\ Untraced

\* the end of a run, remembered: how it ended, on which cache and input
Ended(scope) ==
    /\ RunEnd(scope)
    /\ done' = Append(done, [scope |-> scope, kind |-> states'[scope].kind,
                              waiting |-> Range(timers)])
    /\ lastRun' = [lastRun EXCEPT ![scope] = [kind |-> states'[scope].kind,
                                              cache |-> fileCache', dir |-> tmpDir]]
    /\ filled' = IF ~filled.done /\ fileCache' # <<>>
                 THEN [done |-> TRUE, dir |-> tmpDir]
                 ELSE filled
    /\ UNCHANGED <<calls, asked, observed>>

\* what a client may ask the state of: a report, or anything else
QueryScopes == Scopes \cup {"reports"}

\* this.states[scope] || 'unknown'
StateValue(values, scope) ==
    IF scope \in DOMAIN values THEN values[scope].kind ELSE "unknown"

\* variant: a query served while a callback is executing
stateMidRun(scope) ==
    /\ observed' = StateValue(states, scope)
    /\ UNCHANGED <<calls, asked, done, lastRun, filled>>
    /\ UNCHANGED reportVars
    /\ UNCHANGED ticketVars

\* state(scope): like every request, served between two callbacks
state(scope) ==
    /\ running = NoScope
    /\ observed' = StateValue(states, scope)
    /\ UNCHANGED <<calls, asked, done, lastRun, filled>>
    /\ UNCHANGED reportVars
    /\ UNCHANGED ticketVars

TracedNext ==
    \/ \E scope \in Scopes : Triggered(scope)
    \/ \E scope \in Scopes : Started(scope)
    \/ \E scope \in Scopes : Ended(scope)
    \/ \E scope \in QueryScopes : state(scope)
    \/ WriteInput /\ Untraced
    \/ RemoveInput /\ Untraced
    \/ MakeInputDir /\ Untraced
    \/ MakeOutputDir /\ Untraced

TracedSpec == ReportInit /\ [][TracedNext]_vars

(***************************************************************************)
(* One report over one ledger: every ledger of a few lines, among them     *)
(* lines with fields missing, amounts that are no numbers, accounts named  *)
(* by a number or like a property every object has                         *)
(***************************************************************************)
MaxLines == 2
MaxMoreLines == 1

LedgerLines ==
    { Line("2023-01-01", "Cash", "100", "0"),
      Line("2023-06-30", "Cash", "0", "40"),
      Line("2024-05-01", "Cash", "0", "30"),
      Line("2023-06-30", "Cash", "abc", "0"),
      Line("2023-06-30", "Sales Revenue", "0", "100"),
      Line("2023-06-30", "1000", "12.5", "0"),
      Line("2023-06-30", "Petty Cash", "7 USD", ""),
      Line("2023-06-30", "constructor", "100", "0"),
      <<"2023-06-30", "Rent Expense">>,
      <<"2023-06-30", "Inventory", "memo", "30">> }

\* the file contents of at most n lines
LinesUpTo(n) == UNION { [1 .. k -> LedgerLines] : k \in 0 .. n }

\* the input directory: a.csv, and perhaps b.csv after it
LedgerDirs ==
    { Dir(<<TextFile("a.csv", a)>>) : a \in LinesUpTo(MaxLines) }
        \cup { Dir(<<TextFile("a.csv", a), TextFile("b.csv", b)>>) :
                 a \in LinesUpTo(MaxLines), b \in LinesUpTo(MaxMoreLines) }

LedgerInit ==
    /\ users = MkUsers([c \in Companies |-> SeedStaff], FALSE)
    /\ tickets = <<>>
    /\ last = NoCall
    /\ calls = NoCalls
    /\ NoTrace
    /\ tmpDir \in LedgerDirs
    /\ outDir = [exists |-> TRUE, files |-> NoOutputs]
    /\ tz \in Zones
    /\ states = [scope \in Scopes |-> Idle]
    /\ fileCache = <<>>
    /\ timers = <<>>
    /\ running = NoScope
    /\ firstRead = [done |-> FALSE, cache |-> <<>>]
    /\ budget = [triggers |-> 1, changes |-> 0]

LedgerNext ==
    \/ accounts /\ Untraced
    \/ yearly /\ Untraced
    \/ fs /\ Untraced
    \/ \E scope \in Scopes : RunBegin(scope) /\ Untraced
    \/ \E scope \in Scopes : RunEnd(scope) /\ Untraced

LedgerSpec == LedgerInit /\ [][LedgerNext]_vars

(***************************************************************************)
(* Properties of the ticket engine                                         *)
(***************************************************************************)
Indices(store) == 1 .. Len(store)

\* the positions of company c's registrationAddressChange tickets
AddressChanges(store, c) ==
    { i \in Indices(store) : store[i].companyId = c
                               /\ store[i].type = "registrationAddressChange" }

OpenAddressChanges(store, c) ==
    { i \in AddressChanges(store, c) : store[i].status = "open" }

Staff(c, role) == { u \in users : u.companyId = c /\ u.role = role }

Called(type) == last.kind # "none" /\ last.type = type /\ last.companyId \in Companies

Succeeded == last.kind = "ok"

\* the last call appended exactly one ticket and handed it back
CreatedOne ==
    /\ Succeeded
    /\ Len(tickets) = Len(last.before) + 1
    /\ Len(last.dto) = 1
    /\ last.dto[1].id = Len(tickets)

NewTicket == tickets[Len(tickets)]

\* C1: one request at a time, every company has at most one open
\* registrationAddressChange ticket after every createTicket call.
C1_AtMostOneOpenAddressChange ==
    \A c \in Companies : Cardinality(OpenAddressChanges(tickets, c)) <= 1

\* a second registrationAddressChange was asked for a company that has one open
C1_Witness ==
    /\ Called("registrationAddressChange")
    /\ OpenAddressChanges(last.before, last.companyId) # {}
    /\ Len(tickets) >= 2

\* C2: createTicket(registrationAddressChange, c) fails with ConflictError
\* whenever a registrationAddressChange ticket of c exists, open or resolved,
\* so no company ever has two such tickets.
C2_DuplicateRejectedWhateverStatus ==
    /\ \A c \in Companies : Cardinality(AddressChanges(tickets, c)) <= 1
    /\ (Called("registrationAddressChange")
          /\ AddressChanges(last.before, last.companyId) # {})
        => /\ last.kind = "ConflictError"
           /\ last.message
                = "A registrationAddressChange ticket already exists for this company"
           /\ tickets = last.before

\* the rejected request met a ticket that an earlier strikeOff had resolved
C2_Witness ==
    /\ Called("registrationAddressChange")
    /\ last.kind = "ConflictError"
    /\ \E i \in AddressChanges(last.before, last.companyId) :
          last.before[i].status = "resolved"

\* C3: createTicket(strikeOff, c) with exactly one director succeeds; c's
\* tickets that were open and not strikeOff are resolved, the new strikeOff
\* ticket is open, of category management and assigned to the director, and
\* the tickets of the other companies are unchanged.
C3_StrikeOffResolvesOthers ==
    (Called("strikeOff") /\ Cardinality(Staff(last.companyId, "director")) = 1)
        => /\ CreatedOne
           /\ \A i \in Indices(last.before) :
                IF /\ last.before[i].companyId = last.companyId
                   /\ last.before[i].status = "open"
                   /\ last.before[i].type # "strikeOff"
                THEN tickets[i] = [last.before[i] EXCEPT !.status = "resolved"]
                ELSE tickets[i] = last.before[i]
           /\ NewTicket.type = "strikeOff"
           /\ NewTicket.status = "open"
           /\ NewTicket.category = "management"
           /\ NewTicket.companyId = last.companyId
           /\ \E d \in Staff(last.companyId, "director") : NewTicket.assigneeId = d.id

\* the strikeOff met an open ticket of its company and an open one of another
C3_Witness ==
    /\ Called("strikeOff")
    /\ Succeeded
    /\ \E i, j \in Indices(last.before) :
          /\ last.before[i].companyId = last.companyId
          /\ last.before[i].status = "open"
          /\ last.before[i].type # "strikeOff"
          /\ tickets[i].status = "resolved"
          /\ last.before[j].companyId # last.companyId
          /\ last.before[j].status = "open"

\* C4: after a successful createTicket(strikeOff, c) the new strikeOff ticket
\* is the only open ticket of c, also when c had an open strikeOff before.
C4_NewStrikeOffOnlyOpenTicket ==
    (Called("strikeOff") /\ Succeeded)
        => \A i \in Indices(tickets) :
              (tickets[i].companyId = last.companyId /\ tickets[i].status = "open")
                  => i = Len(tickets)

\* C5: createTicket(strikeOff, c) with zero or several directors fails with
\* ConflictError, resolves no ticket and creates none.
C5_StrikeOffNeedsOneDirector ==
    (Called("strikeOff") /\ Cardinality(Staff(last.companyId, "director")) # 1)
        => /\ last.kind = "ConflictError"
           /\ last.message
                = (IF Staff(last.companyId, "director") = {}
                   THEN "No director found. Cannot create a strikeOff ticket"
                   ELSE "Multiple directors found. Cannot create a strikeOff ticket")
           /\ last.dto = <<>>
           /\ tickets = last.before

\* the rejected strikeOff, several directors, met an open ticket of its company
C5_Witness ==
    /\ Called("strikeOff")
    /\ Cardinality(Staff(last.companyId, "director")) > 1
    /\ last.kind = "ConflictError"
    /\ \E i \in Indices(tickets) :
          tickets[i].companyId = last.companyId /\ tickets[i].status = "open"

\* C6: createTicket(managementReport, c) for an existing company with exactly
\* one accountant succeeds with an open accounting ticket of c assigned to
\* that accountant, whatever the other staff and the existing tickets.
C6_ManagementReportToAccountant ==
    (Called("managementReport") /\ Cardinality(Staff(last.companyId, "accountant")) = 1)
        => /\ CreatedOne
           /\ \A i \in Indices(last.before) : tickets[i] = last.before[i]
           /\ NewTicket.type = "managementReport"
           /\ NewTicket.status = "open"
           /\ NewTicket.category = "accounting"
           /\ NewTicket.companyId = last.companyId
           /\ \E a \in Staff(last.companyId, "accountant") : NewTicket.assigneeId = a.id
           /\ last.dto[1] = NewTicket

\* the report was created for a company with several secretaries, no director
\* and tickets already in the store
C6_Witness ==
    /\ Called("managementReport")
    /\ Succeeded
    /\ Cardinality(Staff(last.companyId, "accountant")) = 1
    /\ Cardinality(Staff(last.companyId, "corporateSecretary")) > 1
    /\ Staff(last.companyId, "director") = {}
    /\ last.before # <<>>

\* the outcome the fallback rule gives for s secretaries and d directors
CorporateExpectation(c) ==
    LET s == Cardinality(Staff(c, "corporateSecretary"))
        d == Cardinality(Staff(c, "director"))
    IN  IF s = 1 THEN [kind |-> "ok", role |-> "corporateSecretary", message |-> ""]
        ELSE IF s > 1
        THEN [kind |-> "ConflictError", role |-> "",
              message |-> "Multiple corporate secretaries found. Cannot create a ticket"]
        ELSE IF d = 1 THEN [kind |-> "ok", role |-> "director", message |-> ""]
        ELSE IF d > 1
        THEN [kind |-> "ConflictError", role |-> "",
              message |-> "Multiple directors found. Cannot create a ticket"]
        ELSE [kind |-> "ConflictError", role |-> "",
              message |-> "No suitable assignee found for this ticket type"]

\* C7: for registrationAddressChange (none existing) and other, the outcome is
\* a function of the secretary count s and director count d: s = 1 assigns the
\* secretary, s > 1 conflicts, s = 0 falls back to the director count.
C7_SecretaryThenDirector ==
    ((Called("registrationAddressChange")
        /\ AddressChanges(last.before, last.companyId) = {})
     \/ Called("other"))
        => LET e == CorporateExpectation(last.companyId) IN
           /\ last.kind = e.kind
           /\ last.message = e.message
           /\ e.kind = "ok"
                => /\ CreatedOne
                   /\ NewTicket.category = "corporate"
                   /\ NewTicket.type = last.type
                   /\ NewTicket.status = "open"
                   /\ NewTicket.companyId = last.companyId
                   /\ \E u \in Staff(last.companyId, e.role) :
                         NewTicket.assigneeId = u.id
           /\ e.kind # "ok" => tickets = last.before

\* no secretary, one director: the ticket went to the director
C7_Witness ==
    /\ Called("other")
    /\ Succeeded
    /\ Staff(last.companyId, "corporateSecretary") = {}
    /\ \E d \in Staff(last.companyId, "director") : NewTicket.assigneeId = d.id

Failed == last.kind \in {"ValidationError", "NotFoundError", "ConflictError"}

\* C8: a failing createTicket leaves the ticket store as it was; validation
\* is decided before the company lookup, and the company lookup before the
\* duplicate check and the role resolution.
C8_FailureLeavesStore ==
    /\ Failed => (tickets = last.before /\ last.dto = <<>>)
    /\ last.kind # "none"
         => /\ (last.type \notin TicketType \/ last.companyId = NoCompany)
                  <=> last.kind = "ValidationError"
            /\ (last.type \in TicketType /\ last.companyId = UnknownCompany)
                  <=> last.kind = "NotFoundError"

\* a strikeOff was rejected, too many directors, with open tickets in the store
C8_Witness ==
    /\ Failed
    /\ last.type = "strikeOff"
    /\ last.kind = "ConflictError"
    /\ \E i \in Indices(last.before) :
          last.before[i].companyId = last.companyId /\ last.before[i].status = "open"

\* the users of a role at a company that no other was created after
MostRecent(c, role) ==
    { u \in Staff(c, role) : \A v \in Staff(c, role) : v.createdAt <= u.createdAt }

\* C17: of several users of the resolved role the most recently created is
\* assigned: createTicket(managementReport, c) with two or more accountants
\* succeeds and assigns the one created last; with no accountant it fails
\* with ConflictError and creates no ticket.
C17_MostRecentAssignee ==
    Called("managementReport")
        => IF Staff(last.companyId, "accountant") = {}
           THEN /\ last.kind = "ConflictError"
                /\ last.message = "Cannot find user with role"
                /\ tickets = last.before
                /\ last.dto = <<>>
           ELSE /\ CreatedOne
                /\ NewTicket.category = "accounting"
                /\ \E u \in MostRecent(last.companyId, "accountant") :
                      NewTicket.assigneeId = u.id

\* of two accountants the one with the lower id was created last, and got
\* the ticket
C17_Witness ==
    /\ Called("managementReport")
    /\ Succeeded
    /\ Cardinality(Staff(last.companyId, "accountant")) = 2
    /\ \E u, v \in Staff(last.companyId, "accountant") :
          /\ u.id < v.id
          /\ u.createdAt > v.createdAt
          /\ NewTicket.assigneeId = u.id

\* the calls that have passed the duplicate check, and those it stopped
PassedFindOne(p) ==
    /\ calls[p].type = "registrationAddressChange"
    /\ calls[p].pc \in {"resolveRole", "findAll", "create", "done"}
    /\ calls[p].kind \in {"none", "ok"}
StoppedByFindOne(p) ==
    /\ calls[p].pc = "done"
    /\ calls[p].message
         = "A registrationAddressChange ticket already exists for this company"

\* C18: of calls interleaved at their queries each check is true of the
\* table as the check reads it, and of nothing later: the duplicate check
\* passes exactly when it sees no registrationAddressChange ticket of the
\* company, and a strikeOff resolves the tickets in the table at its bulk
\* update.  Nothing holds the table until the call persists, so two calls
\* can both pass the check and persist, and a ticket persisted after a
\* strikeOff's update stays open when the strikeOff call has ended.
C18_ChecksHoldOnlyWhenMade ==
    \A p \in DOMAIN calls :
        /\ PassedFindOne(p) => AddressChanges(calls[p].seen, calls[p].companyId) = {}
        /\ StoppedByFindOne(p)
              => AddressChanges(calls[p].seen, calls[p].companyId) # {}
        /\ (calls[p].type = "strikeOff" /\ calls[p].pc \in {"findAll", "create", "done"}
                /\ calls[p].kind \in {"none", "ok"})
              => \A i \in 1 .. calls[p].resolvedUpTo :
                    (tickets[i].companyId = calls[p].companyId
                        /\ tickets[i].type # "strikeOff")
                        => tickets[i].status = "resolved"

\* three calls for one company have all ended well: two address changes,
\* both open, persisted between the bulk update of the strikeOff and its
\* ticket, the last in the table
C18_Witness ==
    /\ calls # NoCalls
    /\ \A p \in DOMAIN calls : calls[p].pc = "done" /\ calls[p].kind = "ok"
    /\ Cardinality(OpenAddressChanges(tickets, 1)) = 2
    /\ tickets[Len(tickets)].type = "strikeOff"

(***************************************************************************)
(* Properties of the report generator                                      *)
(***************************************************************************)
Pending(scope) == running = scope \/ scope \in Range(timers)

Settled(scope) == running # scope /\ states[scope].kind \in {"finished", "error"}

\* the step in which a callback ends
RunEnds == running # NoScope /\ running' = NoScope

\* what the run that is ending has to fail on
InputUnreadable == fileCache = <<>> /\ ~tmpDir.exists
OutputUnwritable == ~outDir.exists

\* C9: every triggered run ends with its scope's state at 'finished in N' or
\* 'error: <message>': an exception while reading or writing is recorded as
\* the error state, no state stays 'processing' once the run has ended, and
\* a run changes the state of its own scope only.
C9_RunSettlesItsState ==
    /\ [](running = NoScope => \A s \in Scopes : states[s].kind # "processing")
    /\ [][RunEnds => /\ states'[running].kind \in {"finished", "error"}
                     /\ (InputUnreadable \/ OutputUnwritable)
                            => states'[running].kind = "error"
                     /\ InputUnreadable
                            => /\ states'[running].message
                                    = "ENOENT: no such file or directory, scandir"
                               /\ outDir' = outDir]_vars
    /\ [][\A s \in Scopes :
            states'[s] # states[s] => (s = running \/ s = running')]_vars
    /\ \A s \in Scopes : Pending(s) ~> Settled(s)

\* one run ended in error on an unreadable file, a later one finished
C9_Witness ==
    /\ running = NoScope
    /\ timers = <<>>
    /\ states["accounts"] = ErrorState("EACCES: permission denied, open")
    /\ states["fs"].kind = "finished"
    /\ states["yearly"] = Idle

\* C10: the cache is populated once, by the first getFileData() call, and is
\* the same ever after, whatever that first call found and whatever changes
\* in the input directory.
C10_CachePopulatedOnce == firstRead.done => fileCache = firstRead.cache

\* the run of scope s that is ending repeats the last run of s: that one
\* finished, and cache and input directory are as it left them
Rerun(s) ==
    /\ running = s
    /\ running' = NoScope
    /\ lastRun[s].kind = "finished"
    /\ lastRun[s].cache = fileCache
    /\ lastRun[s].dir = tmpDir

\* C11: re-running a report with input directory and cache unchanged writes
\* the output the previous run of that report wrote; the file holds that
\* output and nothing else, a function of the cached lines alone.
C11_RerunWritesSameOutput ==
    [][\A s \in Scopes :
         Rerun(s) => /\ states'[s].kind = "finished"
                     /\ outDir'.files[s] = outDir.files[s]
                     /\ outDir'.files[s]
                           = <<Report(s, CacheValues(fileCache), tz).output>>]_vars

\* a report ran twice over the same two readable ledgers, nothing changed
\* in between, and both runs wrote
C11_Witness ==
    /\ \E s \in Scopes :
          /\ Len(done) = 2
          /\ \A i \in 1 .. 2 : done[i].scope = s /\ done[i].kind = "finished"
    /\ budget.changes = MaxChanges
    /\ Len(fileCache) = 2
    /\ \A i \in 1 .. Len(tmpDir.files) : tmpDir.files[i].readable

\* how often x occurs in seq
Count(seq, x) == Cardinality({ i \in 1 .. Len(seq) : seq[i] = x })

\* the scopes of the runs that have ended, in order
DoneScopes == [ i \in 1 .. Len(done) |-> done[i].scope ]

\* C12: a trigger returns at once and changes no state; every trigger gets
\* a run of its own, also while a run of the same report is due (nothing is
\* excluded, merged or cancelled); every run writes the state and the output
\* file itself, so the run that ends last decides both.
C12_TriggersRunIndependently ==
    /\ [](\A s \in Scopes :
             Count(asked, s) = Count(DoneScopes, s) + Count(timers, s)
                                 + (IF running = s THEN 1 ELSE 0))
    /\ [][asked' # asked => /\ states' = states
                            /\ outDir' = outDir
                            /\ fileCache' = fileCache
                            /\ running' = running
                            /\ timers' = Append(timers, asked'[Len(asked')])]_vars
    /\ [][\A s \in Scopes :
            (running = s /\ running' = NoScope)
                => /\ states'[s].kind = "finished"
                        => outDir'.files[s]
                             = <<Report(s, CacheValues(fileCache'), tz).output>>
                   /\ states'[s].kind = "error" => outDir' = outDir]_vars

\* a report was triggered again while its first run was due; the first run
\* ended in error, the second finished and its state and output stand
C12_Witness ==
    /\ Len(done) = 2
    /\ \E s \in Scopes :
          /\ done[1] = [scope |-> s, kind |-> "error", waiting |-> {s}]
          /\ done[2].scope = s
          /\ states[s].kind = "finished"
          /\ outDir.files[s] # <<>>

(***************************************************************************)
(* Properties of the three reports                                         *)
(***************************************************************************)
\* the lines a report is computed from
CachedLines == Flatten(CacheValues(fileCache))

\* the texts that are numbers, and the lines of five fields with a number
\* as debit and as credit
PlainNumbers == {"0", "100", "40", "30", "12.5"}
WellFormed(line) ==
    Len(line) = 5 /\ line[4] \in PlainNumbers /\ line[5] \in PlainNumbers

AccountOf(line) == ToKey(Field(line, 2))

\* the accounts of the lines, each where it is first seen
AccountsSeen(lines) == { AccountOf(lines[i]) : i \in 1 .. Len(lines) }
FirstSeenAt(lines, account) ==
    CHOOSE i \in 1 .. Len(lines) :
        /\ AccountOf(lines[i]) = account
        /\ \A j \in 1 .. i - 1 : AccountOf(lines[j]) # account
FirstSeen(lines) ==
    Ascending(AccountsSeen(lines), LAMBDA account : FirstSeenAt(lines, account))

\* the sum of debit - credit over the lines of an account
DebitsLessCredits(lines, account) ==
    FoldLeft(LAMBDA sum, line :
                 IF AccountOf(line) = account THEN Plus(sum, Amount(line)) ELSE sum,
             Number(0), lines)

\* header, then one row per account in first-seen order
TrialBalance(lines) ==
    <<TextLine("Account,Balance")>>
        \o [ i \in 1 .. Len(FirstSeen(lines)) |->
               AmountLine(FirstSeen(lines)[i],
                          DebitsLessCredits(lines, FirstSeen(lines)[i])) ]

\* C13: the trial balance holds, after its header, one row per account of
\* the cached lines, in the order the accounts are first seen, each with the
\* sum of debit less the sum of credit of the account's lines.
C13_TrialBalanceFirstSeenOrder ==
    (states["accounts"].kind = "finished"
        /\ \A i \in 1 .. Len(CachedLines) : WellFormed(CachedLines[i]))
        => outDir.files["accounts"] = <<TrialBalance(CachedLines)>>

\* the statement written, and the amount its line of a given text shows,
\* in hundredths
Statement == outDir.files["fs"][1]
Cents(fixed) == (IF fixed.neg THEN 0 - 1 ELSE 1) * (fixed.whole * 100 + fixed.frac)
Shown(text) ==
    Cents(Statement[CHOOSE i \in 1 .. Len(Statement) : Statement[i].text = text].amounts[1])
SumShown(group) ==
    FoldLeft(LAMBDA sum, account : sum + Shown(account), 0, group)

\* the last line of the statement
Reconciliation == Statement[Len(Statement)]

\* C14: in the financial statement Total Assets is the sum of the listed
\* asset accounts, Total Equity the sum of the listed equity accounts plus
\* net income (revenues less expenses); every listed account shows the sum
\* of its own lines, so an account outside the taxonomy adds to nothing; the
\* last line is always the reconciliation, its right-hand value being
\* total liabilities + total equity, equal to total assets or not.
C14_StatementTotals ==
    states["fs"].kind = "finished"
        => /\ Shown("Total Assets") = SumShown(Assets)
           /\ Shown("Total Liabilities") = SumShown(Liabilities)
           /\ Shown("Net Income") = SumShown(Revenues) - SumShown(Expenses)
           /\ Shown("Retained Earnings (Net Income)") = Shown("Net Income")
           /\ Shown("Total Equity") = SumShown(Equity) + Shown("Net Income")
           /\ Reconciliation.text = "Assets = Liabilities + Equity"
           /\ Len(Reconciliation.amounts) = 2
           /\ \A i \in 1 .. 2 : Reconciliation.amounts[i].text # "NaN"
           /\ Cents(Reconciliation.amounts[1]) = Shown("Total Assets")
           /\ Cents(Reconciliation.amounts[2])
                 = Shown("Total Liabilities") + Shown("Total Equity")
           /\ (\A i \in 1 .. Len(CachedLines) : WellFormed(CachedLines[i]))
                 => \A account \in Range(Revenues \o Expenses \o Assets
                                            \o Liabilities \o Equity) :
                       Shown(account) = DebitsLessCredits(CachedLines, account).v

\* a statement that does not balance, over a ledger with a line of an
\* account outside the taxonomy
C14_Witness ==
    /\ states["fs"].kind = "finished"
    /\ Shown("Total Assets") = 10000
    /\ Cents(Reconciliation.amounts[2]) # Shown("Total Assets")
    /\ \E i \in 1 .. Len(CachedLines) : AccountOf(CachedLines[i]) = "1000"

\* a debit or credit field read forgivingly: a number counts, anything else
\* (missing, empty, no number) is 0
Forgiven(field) == IF field \in PlainNumbers THEN ParseFloat(field).v ELSE 0
ForgivingSum(lines, account) ==
    FoldLeft(LAMBDA sum, line :
                 IF AccountOf(line) = account
                 THEN sum + Forgiven(Field(line, 4)) - Forgiven(Field(line, 5))
                 ELSE sum,
             0, lines)

\* the amounts a written report shows
AmountsShown(output) ==
    { output[i].amounts[j] : <<i, j>> \in { x \in (1 .. Len(output)) \X (1 .. 2) :
                                              x[2] <= Len(output[x[1]].amounts) } }

\* C15: parsing a line fails no run and spoils no balance: a debit or credit
\* that is missing, empty or no number counts as 0, so every amount written
\* is a finite number, and every balance of the trial balance is the sum of
\* the well-formed amounts of its account.
C15_ParsingIsForgiving ==
    /\ \A s \in Scopes : states[s].kind # "error"
    /\ \A s \in Scopes :
          states[s].kind = "finished"
              => \A fixed \in AmountsShown(outDir.files[s][1]) : fixed.text # "NaN"
    /\ states["accounts"].kind = "finished"
          => \A i \in 2 .. Len(outDir.files["accounts"][1]) :
                \E row \in {outDir.files["accounts"][1][i]} :
                    /\ row.amounts[1].text # "NaN"
                    /\ Cents(row.amounts[1]) = ForgivingSum(CachedLines, row.text)

\* the calendar year a date text names
CalendarYear(date) ==
    CASE date \in {"2023-01-01", "2023-06-30"} -> "2023"
      [] date = "2024-05-01" -> "2024"

IsCash(line) == Field(line, 2) = "Cash"

\* the years that have a Cash line, ascending
CashYears(lines) ==
    Ascending({ CalendarYear(lines[i][1]) : i \in { j \in 1 .. Len(lines) : IsCash(lines[j]) } },
              CodeUnitRank)

\* debit less credit over the Cash lines of a year
CashOfYear(lines, year) ==
    FoldLeft(LAMBDA sum, line :
                 IF IsCash(line) /\ CalendarYear(line[1]) = year
                 THEN Plus(sum, Amount(line))
                 ELSE sum,
             Number(0), lines)

YearlyCash(lines) ==
    <<TextLine("Financial Year,Cash Balance")>>
        \o [ i \in 1 .. Len(CashYears(lines)) |->
               AmountLine(CashYears(lines)[i], CashOfYear(lines, CashYears(lines)[i])) ]

\* C16: the yearly report sums debit less credit of the lines of account
\* Cash, and of no other, per calendar year of the line's date, and holds
\* after its header one row per year with a Cash line, years ascending:
\* (2023-01-01, Cash, debit 100) and (2024-05-01, Cash, credit 30) give
\* 2023,100.00 and then 2024,-30.00.
C16_YearlyCashByCalendarYear ==
    (states["yearly"].kind = "finished"
        /\ \A i \in 1 .. Len(CachedLines) : WellFormed(CachedLines[i]))
        => outDir.files["yearly"] = <<YearlyCash(CachedLines)>>

\* the run that is executing, if any, as a sequence
Executing == IF running = NoScope THEN <<>> ELSE <<running>>

\* C19: a run executes as one step of the event loop: while its callback
\* executes no trigger is taken, no state(scope) served and no other run
\* started or ended, so state(scope) never returns 'processing'; and the
\* runs execute and end in the order of their triggers.
C19_RunIsOneStep ==
    /\ [](observed # "processing")
    /\ [](asked = DoneScopes \o Executing \o timers)
    /\ [][running # NoScope => /\ asked' = asked
                               /\ observed' = observed
                               /\ timers' = timers
                               /\ running' \in {running, NoScope}
                               /\ running' = running => /\ states' = states
                                                        /\ done' = done]_vars

\* two reports, the second triggered while the first was due, have run and
\* ended in the order of their triggers, and the state asked for after
\* them was a final one
C19_Witness ==
    /\ Len(done) = 2
    /\ done[1].scope # done[2].scope
    /\ done[1].waiting = {done[2].scope}
    /\ asked = DoneScopes
    /\ observed \in {"finished", "error"}

\* the cache entries that reading every CSV file of a directory gives
EveryCsvFile(dir) ==
    { [file |-> dir.files[i].name, lines |-> SplitLines(dir.files[i].content)] :
        i \in { j \in 1 .. Len(dir.files) : EndsWithCsv(dir.files[j].name) } }

\* C20: a run that ends 'finished' on a filled cache has aggregated all CSV
\* files that were in the input directory when the cache was first filled,
\* never a part of them, also after a run that ended in error on a file it
\* could not read.
C20_FinishedRunsReadEveryFile ==
    \A s \in Scopes :
        (lastRun[s].kind = "finished" /\ lastRun[s].cache # <<>>)
            => /\ filled.done
               /\ Range(lastRun[s].cache) = EveryCsvFile(filled.dir)

====
